---- MODULE Spec2Model ----
(***************************************************************************)
(* Screw / co-screw algebra of SCREW (gscrew/screw.py, src/screw.py) and    *)
(* the forward-kinematics example (examples/arm_kinematics.py).             *)
(*                                                                          *)
(* Multivectors are functions from basis blades (subsets of 1..Dim) to      *)
(* integer coefficients; the metric is Euclidean (e_i * e_i = 1).           *)
(***************************************************************************)
EXTENDS Integers, Sequences, FiniteSets, TLC

\* ------------------------------------------------------------------------
\* Multivector substrate (gscrew.geometric_algebra)
\* ------------------------------------------------------------------------

Dim == 3

Blades == SUBSET (1..Dim)

Zero == [b \in Blades |-> 0]

\* c * (basis blade b)
Blade(b, c) == [x \in Blades |-> IF x = b THEN c ELSE 0]

MVAdd(a, b) == [x \in Blades |-> a[x] + b[x]]

MVSub(a, b) == [x \in Blades |-> a[x] - b[x]]

MVNeg(a) == [x \in Blades |-> 0 - a[x]]

\* scalar * multivector
Scale(k, a) == [x \in Blades |-> k * a[x]]

\* grade projection a(k)
Grade(a, k) == [x \in Blades |-> IF Cardinality(x) = k THEN a[x] ELSE 0]

\* grade involution: negates the odd-grade components
grade_involution(a) == [x \in Blades |-> IF Cardinality(x) % 2 = 1 THEN 0 - a[x] ELSE a[x]]

\* reversion ~a: reverses the order of the basis vectors of every blade
Reverse(a) ==
  [x \in Blades |-> IF ((Cardinality(x) * (Cardinality(x) - 1)) \div 2) % 2 = 1
                    THEN 0 - a[x] ELSE a[x]]

\* sign of the permutation that sorts the concatenation of blades A and B
ReorderSign == [A \in Blades, B \in Blades |->
                  IF Cardinality({p \in A \X B : p[1] > p[2]}) % 2 = 0 THEN 1 ELSE -1]

SymDiff(A, B) == (A \ B) \cup (B \ A)

RECURSIVE SumFn(_, _)
SumFn(f, S) == IF S = {} THEN 0
               ELSE LET e == CHOOSE e \in S : TRUE IN f[e] + SumFn(f, S \ {e})

\* geometric product a * b
GeoProduct(a, b) ==
  [x \in Blades |->
     SumFn([A \in Blades |-> a[A] * b[SymDiff(A, x)] * ReorderSign[A, SymDiff(A, x)]],
           Blades)]

\* outer product a ^ b
Wedge(a, b) ==
  [x \in Blades |->
     SumFn([A \in Blades |-> IF A \subseteq x
                             THEN a[A] * b[x \ A] * ReorderSign[A, x \ A]
                             ELSE 0],
           Blades)]

\* ------------------------------------------------------------------------
\* Values and call outcomes
\* ------------------------------------------------------------------------

NoVal == [kind |-> "none"]

Ok(v) == [err |-> "none", val |-> v]

Raise(e) == [err |-> e, val |-> NoVal]

IsScrewBase(v) == v.kind \in {"Screw", "CoScrew"}

\* a plain multivector result (comoment)
MVVal(m) == [kind |-> "mv", mv |-> m]

\* an int/float operand
ScalarVal(n) == [kind |-> "scalar", num |-> n]

\* an operand that is neither a (co)screw nor a number
OtherVal == [kind |-> "other"]

\* ------------------------------------------------------------------------
\* Point-aware variant (gscrew/screw.py)
\* ------------------------------------------------------------------------

ScrewBase_init_nocheck(kind, ref_point, direction, moment) ==
  Ok([kind |-> kind, ref_point |-> ref_point, direction |-> direction, moment |-> moment])

\* ScrewBase.__init__ as called through the concrete class `kind`
ScrewBase_init(kind, ref_point, direction, moment) ==
  IF Grade(ref_point, 1) # ref_point
  THEN Raise("InvalidReferencePoint")
  ELSE Ok([kind |-> kind, ref_point |-> ref_point, direction |-> direction, moment |-> moment])

change_point_absolute(self, new_point) ==
  ScrewBase_init(self.kind, new_point, self.direction,
                 MVSub(self.moment, Wedge(new_point, self.direction)))

\* ScrewBase.change_point
change_point(self, new_point) ==
  ScrewBase_init(self.kind, new_point, self.direction,
                 MVSub(self.moment, Wedge(MVSub(new_point, self.ref_point), self.direction)))

Screw_add_notransport(self, other) ==
  IF other.kind # "Screw"
  THEN Raise("TypeMismatch")
  ELSE ScrewBase_init("Screw", self.ref_point,
                      MVAdd(self.direction, other.direction),
                      MVAdd(self.moment, other.moment))

Screw_add_nocheck(self, other) ==
  IF ~IsScrewBase(other)
  THEN Raise("AttributeError")
  ELSE LET t == IF self.ref_point # other.ref_point
                THEN change_point(other, self.ref_point)
                ELSE Ok(other)
       IN IF t.err # "none" THEN t
          ELSE ScrewBase_init("Screw", self.ref_point,
                              MVAdd(self.direction, t.val.direction),
                              MVAdd(self.moment, t.val.moment))

\* Screw.__add__ (and __radd__)
Screw_add(self, other) ==
  IF other.kind # "Screw"
  THEN Raise("TypeMismatch")
  ELSE LET t == IF self.ref_point # other.ref_point
                THEN change_point(other, self.ref_point)
                ELSE Ok(other)
       IN IF t.err # "none" THEN t
          ELSE ScrewBase_init("Screw", self.ref_point,
                              MVAdd(self.direction, t.val.direction),
                              MVAdd(self.moment, t.val.moment))

Screw_xor_noinvolution(self, other) ==
  IF other.kind # "Screw"
  THEN Raise("TypeMismatch")
  ELSE LET t == IF self.ref_point # other.ref_point
                THEN change_point(other, self.ref_point)
                ELSE Ok(other)
       IN IF t.err # "none" THEN t
          ELSE ScrewBase_init("Screw", self.ref_point,
                              MVAdd(Wedge(self.direction, t.val.moment),
                                    Wedge(self.moment, t.val.direction)),
                              Wedge(self.moment, t.val.moment))

\* Screw.__xor__
Screw_xor(self, other) ==
  IF other.kind # "Screw"
  THEN Raise("TypeMismatch")
  ELSE LET t == IF self.ref_point # other.ref_point
                THEN change_point(other, self.ref_point)
                ELSE Ok(other)
       IN IF t.err # "none" THEN t
          ELSE ScrewBase_init("Screw", self.ref_point,
                              MVAdd(Wedge(self.direction, t.val.moment),
                                    Wedge(grade_involution(self.moment), t.val.direction)),
                              Wedge(self.moment, t.val.moment))

\* CoScrew.__add__ (and __radd__)
CoScrew_add(self, other) ==
  IF other.kind # "CoScrew"
  THEN Raise("TypeMismatch")
  ELSE ScrewBase_init("CoScrew", self.ref_point,
                      MVAdd(self.direction, other.direction),
                      MVAdd(self.moment, other.moment))

CoScrew_rmul_direction_only(self, scalar) ==
  IF scalar.kind # "scalar"
  THEN Raise("TypeMismatch")
  ELSE ScrewBase_init("CoScrew", self.ref_point,
                      Scale(scalar.num, self.direction),
                      self.moment)

\* CoScrew.__rmul__
CoScrew_rmul(self, scalar) ==
  IF scalar.kind # "scalar"
  THEN Raise("TypeMismatch")
  ELSE ScrewBase_init("CoScrew", self.ref_point,
                      Scale(scalar.num, self.direction),
                      Scale(scalar.num, self.moment))

\* comoment(coscrew, screw); the arguments are used through their
\* direction and moment attributes only
comoment(coscrew, screw) ==
  Grade(MVAdd(GeoProduct(MVNeg(grade_involution(coscrew.direction)),
                         grade_involution(screw.moment)),
              GeoProduct(screw.direction, coscrew.moment)),
        0)

\* CoScrew.composition(other), the comotor of `other` applied after `self`:
\* `other` is brought to self's reference point, the rotors multiply
\* (proximal * distal) and the moment follows the product rule
composition(self, other) ==
  LET t == IF self.ref_point # other.ref_point
           THEN change_point(other, self.ref_point)
           ELSE Ok(other)
  IN IF t.err # "none" THEN t
     ELSE ScrewBase_init("CoScrew", self.ref_point,
                         GeoProduct(t.val.direction, self.direction),
                         MVAdd(GeoProduct(t.val.direction, self.moment),
                               GeoProduct(t.val.moment, self.direction)))

\* CoScrew.resultant: the rotor of a comotor
resultant(self) == self.direction

\* ------------------------------------------------------------------------
\* Point-free variant (src/screw.py): no reference point, no validation
\* ------------------------------------------------------------------------

\* Screw.__init__ / CoScrew.__init__
PF_init(kind, direction, moment) ==
  Ok([kind |-> kind, direction |-> direction, moment |-> moment])

\* Screw.__add__
PF_Screw_add(self, other) ==
  IF other.kind # "Screw"
  THEN Raise("TypeMismatch")
  ELSE PF_init("Screw", MVAdd(self.direction, other.direction),
                        MVAdd(self.moment, other.moment))

\* Screw.__xor__: in Python `+` binds tighter than `^`, so the direction
\* argument `d ^ om + m.grade_involution() ^ od` is (d ^ (om + gi(m))) ^ od
PF_Screw_xor(self, other) ==
  IF other.kind # "Screw"
  THEN Raise("TypeMismatch")
  ELSE PF_init("Screw",
               Wedge(Wedge(self.direction,
                           MVAdd(other.moment, grade_involution(self.moment))),
                     other.direction),
               Wedge(self.moment, other.moment))

\* CoScrew.__add__
PF_CoScrew_add(self, other) ==
  IF other.kind # "CoScrew"
  THEN Raise("TypeMismatch")
  ELSE PF_init("CoScrew", MVAdd(self.direction, other.direction),
                          MVAdd(self.moment, other.moment))

\* CoScrew.__rmul__
PF_CoScrew_rmul(self, scalar) ==
  IF scalar.kind # "scalar"
  THEN Raise("TypeMismatch")
  ELSE PF_init("CoScrew", Scale(scalar.num, self.direction),
                          Scale(scalar.num, self.moment))

\* comoment(coscrew, screw), left as a raw multivector
PF_comoment(coscrew, screw) ==
  MVAdd(GeoProduct(MVNeg(grade_involution(coscrew.direction)),
                   grade_involution(screw.moment)),
        GeoProduct(screw.direction, coscrew.moment))

\* ------------------------------------------------------------------------
\* Inputs
\* ------------------------------------------------------------------------

MaxSteps == 1

MaxScalar == 2

E(i) == Blade({i}, 1)

\* the origin O = 0 * s
O == Zero

\* grade-1 values usable as reference points
ValidPoints == {O, E(1), MVAdd(E(2), Scale(2, E(3)))}

\* values that are not grade-1: a bivector and a scalar-plus-vector
BadPoints == {Blade({1, 2}, 1), MVAdd(Blade({}, 1), E(1))}

PointInputs == ValidPoints \cup BadPoints

\* 2 + 3*e1 + 6*e3 (module docstring) and a vector-plus-bivector
DirectionInputs ==
  {MVAdd(Blade({}, 2), MVAdd(Scale(3, E(1)), Scale(6, E(3)))),
   MVAdd(E(2), Blade({1, 3}, 1))}

\* 2*e1 + 5*e2 + e3 (module docstring) and a scalar-plus-bivector
MomentInputs ==
  {MVAdd(Scale(2, E(1)), MVAdd(Scale(5, E(2)), E(3))),
   MVAdd(Blade({}, 1), Blade({2, 3}, 1))}

ScalarInputs == {ScalarVal(n) : n \in (0 - 1)..MaxScalar}

\* ------------------------------------------------------------------------
\* State: two program variables x and y holding operands, the outcome of
\* the last call (res, err) and what that call was (op, arg)
\* ------------------------------------------------------------------------

VARIABLES x, y, res, err, op, arg, steps

\* State of the forward-kinematics script: its position (pc), the loop
\* variable, the script's variables, and the list of joint indices that
\* have entered total_comotor so far (folded)
VARIABLES pc, index, rotation_angles, joint_comotors, total_comotor, folded,
          total_rotor, total_translation, final_position

session == <<x, y, res, err, op, arg, steps>>

script == <<pc, index, rotation_angles, joint_comotors, total_comotor, folded,
            total_rotor, total_translation, final_position>>

vars == <<x, y, res, err, op, arg, steps, pc, index, rotation_angles,
          joint_comotors, total_comotor, folded, total_rotor,
          total_translation, final_position>>

SessionIdle ==
  /\ x = NoVal
  /\ y = NoVal
  /\ res = NoVal
  /\ err = "none"
  /\ op = "none"
  /\ arg = Zero
  /\ steps = 0

ScriptIdle ==
  /\ pc = "idle"
  /\ index = 0
  /\ rotation_angles = <<>>
  /\ joint_comotors = <<>>
  /\ total_comotor = NoVal
  /\ folded = <<>>
  /\ total_rotor = Zero
  /\ total_translation = Zero
  /\ final_position = Zero

Init ==
  /\ SessionIdle
  /\ ScriptIdle

\* x = Kind(ref_point, direction, moment), the first assignment of x
ConstructX(kind, p, d, m) ==
  LET r == ScrewBase_init(kind, p, d, m)
  IN /\ x = NoVal
     /\ x' = IF r.err = "none" THEN r.val ELSE x
     /\ res' = NoVal
     /\ err' = r.err
     /\ op' = "construct"
     /\ arg' = p
     /\ UNCHANGED <<y, steps, script>>

\* y = Kind(ref_point, direction, moment), the first assignment of y
ConstructY(kind, p, d, m) ==
  LET r == ScrewBase_init(kind, p, d, m)
  IN /\ y = NoVal
     /\ y' = IF r.err = "none" THEN r.val ELSE y
     /\ res' = NoVal
     /\ err' = r.err
     /\ op' = "construct"
     /\ arg' = p
     /\ UNCHANGED <<x, steps, script>>

\* y = a number, or a value of some unrelated type
LoadY(v) ==
  /\ y = NoVal
  /\ y' = v
  /\ res' = NoVal
  /\ err' = "none"
  /\ op' = "load"
  /\ arg' = Zero
  /\ UNCHANGED <<x, steps, script>>

Call(name, r, a) ==
  /\ res' = r.val
  /\ err' = r.err
  /\ op' = name
  /\ arg' = a
  /\ UNCHANGED <<x, y, steps, script>>

\* x.change_point(new_point)
ChangePoint(new_point) ==
  /\ IsScrewBase(x)
  /\ Call("change_point", change_point(x, new_point), new_point)

\* x + y with x a Screw
ScrewAdd ==
  /\ x.kind = "Screw"
  /\ y # NoVal
  /\ Call("Screw_add", Screw_add(x, y), Zero)

\* x ^ y with x a Screw
ScrewXor ==
  /\ x.kind = "Screw"
  /\ y # NoVal
  /\ Call("Screw_xor", Screw_xor(x, y), Zero)

\* x + y with x a CoScrew
CoScrewAdd ==
  /\ x.kind = "CoScrew"
  /\ y # NoVal
  /\ Call("CoScrew_add", CoScrew_add(x, y), Zero)

\* y * x with x a CoScrew
CoScrewRmul ==
  /\ x.kind = "CoScrew"
  /\ y # NoVal
  /\ Call("CoScrew_rmul", CoScrew_rmul(x, y), Zero)

\* comoment(x, y)
Comoment ==
  /\ IsScrewBase(x)
  /\ IsScrewBase(y)
  /\ Call("comoment", Ok(MVVal(comoment(x, y))), Zero)

\* x = <result of the last call>
StoreX ==
  /\ IsScrewBase(res)
  /\ steps < MaxSteps
  /\ x' = res
  /\ res' = NoVal
  /\ err' = "none"
  /\ op' = "store"
  /\ arg' = Zero
  /\ steps' = steps + 1
  /\ UNCHANGED <<y, script>>

Next ==
  \/ \E kind \in {"Screw", "CoScrew"}, p \in PointInputs,
        d \in DirectionInputs, m \in MomentInputs : ConstructX(kind, p, d, m)
  \/ \E kind \in {"Screw", "CoScrew"}, p \in PointInputs,
        d \in DirectionInputs, m \in MomentInputs : ConstructY(kind, p, d, m)
  \/ \E v \in ScalarInputs \cup {OtherVal} : LoadY(v)
  \/ \E p \in PointInputs : ChangePoint(p)
  \/ ScrewAdd
  \/ ScrewXor
  \/ CoScrewAdd
  \/ CoScrewRmul
  \/ Comoment
  \/ StoreX


\* ------------------------------------------------------------------------
\* The same session over the point-free variant
\* ------------------------------------------------------------------------

\* x = Kind(direction, moment), the first assignment of x
PFConstructX(kind, d, m) ==
  /\ x = NoVal
  /\ x' = PF_init(kind, d, m).val
  /\ res' = NoVal
  /\ err' = "none"
  /\ op' = "construct"
  /\ arg' = Zero
  /\ UNCHANGED <<y, steps, script>>

\* y = Kind(direction, moment), the first assignment of y
PFConstructY(kind, d, m) ==
  /\ y = NoVal
  /\ y' = PF_init(kind, d, m).val
  /\ res' = NoVal
  /\ err' = "none"
  /\ op' = "construct"
  /\ arg' = Zero
  /\ UNCHANGED <<x, steps, script>>

\* x + y with x a Screw
PFScrewAdd ==
  /\ x.kind = "Screw"
  /\ y # NoVal
  /\ Call("PF_Screw_add", PF_Screw_add(x, y), Zero)

\* x ^ y with x a Screw
PFScrewXor ==
  /\ x.kind = "Screw"
  /\ y # NoVal
  /\ Call("PF_Screw_xor", PF_Screw_xor(x, y), Zero)

\* x + y with x a CoScrew
PFCoScrewAdd ==
  /\ x.kind = "CoScrew"
  /\ y # NoVal
  /\ Call("PF_CoScrew_add", PF_CoScrew_add(x, y), Zero)

\* y * x with x a CoScrew
PFCoScrewRmul ==
  /\ x.kind = "CoScrew"
  /\ y # NoVal
  /\ Call("PF_CoScrew_rmul", PF_CoScrew_rmul(x, y), Zero)

\* comoment(x, y)
PFComoment ==
  /\ IsScrewBase(x)
  /\ IsScrewBase(y)
  /\ Call("PF_comoment", Ok(MVVal(PF_comoment(x, y))), Zero)

NextFree ==
  \/ \E kind \in {"Screw", "CoScrew"},
        d \in DirectionInputs, m \in MomentInputs : PFConstructX(kind, d, m)
  \/ \E kind \in {"Screw", "CoScrew"},
        d \in DirectionInputs, m \in MomentInputs : PFConstructY(kind, d, m)
  \/ \E v \in ScalarInputs \cup {OtherVal} : LoadY(v)
  \/ PFScrewAdd
  \/ PFScrewXor
  \/ PFCoScrewAdd
  \/ PFCoScrewRmul
  \/ PFComoment
  \/ StoreX

\* ------------------------------------------------------------------------
\* examples/arm_kinematics.py
\* ------------------------------------------------------------------------

nb_joints == 6

end_effector == Scale(40, E(3))

\* rotation_centers[i], i = 0 .. nb_joints - 1, at position i + 1
rotation_centers ==
  <<Scale(10, E(3)), Scale(10, E(3)), Scale(20, E(3)),
    Scale(30, E(3)), Scale(30, E(3)), Scale(30, E(3))>>

\* rotation_planes[i] at position i + 1
rotation_planes ==
  <<Blade({1, 2}, 1), Blade({1, 3}, -1), Blade({1, 3}, -1),
    Blade({1, 2}, 1), Blade({1, 3}, -1), Blade({1, 2}, 1)>>

\* Joint angles in degrees whose half-angle cosine and sine are integers
AngleInputs == {0, 180}

\* cos(angle/2) + sin(angle/2) * plane
Rotor(angle, plane) ==
  IF angle = 0 THEN Blade({}, 1) ELSE plane

InitArm ==
  /\ SessionIdle
  /\ pc = "build"
  /\ index = 0
  /\ rotation_angles \in [1..nb_joints -> AngleInputs]
  /\ joint_comotors = <<>>
  /\ total_comotor = NoVal
  /\ folded = <<>>
  /\ total_rotor = Zero
  /\ total_translation = Zero
  /\ final_position = Zero

\* one iteration of `for index in range(nb_joints)`
BuildJoint ==
  /\ pc = "build"
  /\ index < nb_joints
  /\ LET r == ScrewBase_init("CoScrew", rotation_centers[index + 1],
                             Rotor(rotation_angles[index + 1], rotation_planes[index + 1]),
                             Zero)
     IN IF r.err = "none"
        THEN /\ joint_comotors' = Append(joint_comotors, r.val)
             /\ index' = index + 1
             /\ pc' = pc
        ELSE /\ pc' = "error"
             /\ UNCHANGED <<joint_comotors, index>>
  /\ UNCHANGED <<rotation_angles, total_comotor, folded, total_rotor,
                 total_translation, final_position, session>>

\* total_comotor = joint_comotors[-1], then enter `for index in range(1, nb_joints-1)`
StartFold ==
  /\ pc = "build"
  /\ index = nb_joints
  /\ total_comotor' = joint_comotors[Len(joint_comotors)]
  /\ folded' = <<Len(joint_comotors) - 1>>
  /\ index' = 1
  /\ pc' = "fold"
  /\ UNCHANGED <<rotation_angles, joint_comotors, total_rotor,
                 total_translation, final_position, session>>

\* one iteration of `for index in range(1, nb_joints-1)`
FoldStep ==
  /\ pc = "fold"
  /\ index < nb_joints - 1
  /\ LET j == nb_joints - index - 1
         r == composition(total_comotor, joint_comotors[j + 1])
     IN IF r.err = "none"
        THEN /\ total_comotor' = r.val
             /\ folded' = Append(folded, j)
             /\ index' = index + 1
             /\ pc' = pc
        ELSE /\ pc' = "error"
             /\ UNCHANGED <<total_comotor, folded, index>>
  /\ UNCHANGED <<rotation_angles, joint_comotors, total_rotor,
                 total_translation, final_position, session>>

\* total_rotor = total_comotor.resultant, once the loop is exhausted
ExtractRotor ==
  /\ pc = "fold"
  /\ index >= nb_joints - 1
  /\ total_rotor' = resultant(total_comotor)
  /\ pc' = "transport"
  /\ UNCHANGED <<index, rotation_angles, joint_comotors, total_comotor, folded,
                 total_translation, final_position, session>>

\* total_comotor.change_point(O): the returned comotor is not bound to
\* any name, total_comotor keeps its value
Transport ==
  /\ pc = "transport"
  /\ pc' = IF change_point(total_comotor, O).err = "none" THEN "translation" ELSE "error"
  /\ UNCHANGED <<index, rotation_angles, joint_comotors, total_comotor, folded,
                 total_rotor, total_translation, final_position, session>>

\* total_translation = total_comotor.moment
ReadTranslation ==
  /\ pc = "translation"
  /\ total_translation' = total_comotor.moment
  /\ pc' = "final"
  /\ UNCHANGED <<index, rotation_angles, joint_comotors, total_comotor, folded,
                 total_rotor, final_position, session>>

\* final_position = ~R * end_effector * R + 2 * ~R * total_translation
FinalPosition ==
  /\ pc = "final"
  /\ final_position' =
       MVAdd(GeoProduct(GeoProduct(Reverse(total_rotor), end_effector), total_rotor),
             GeoProduct(Scale(2, Reverse(total_rotor)), total_translation))
  /\ pc' = "done"
  /\ UNCHANGED <<index, rotation_angles, joint_comotors, total_comotor, folded,
                 total_rotor, total_translation, session>>

NextArm ==
  \/ BuildJoint
  \/ StartFold
  \/ FoldStep
  \/ ExtractRotor
  \/ Transport
  \/ ReadTranslation
  \/ FinalPosition

Spec == Init /\ [][Next]_vars

SpecFree == Init /\ [][NextFree]_vars


SpecArm == InitArm /\ [][NextArm]_vars

\* ------------------------------------------------------------------------
\* Properties
\* ------------------------------------------------------------------------

IsPoint(p) == Grade(p, 1) = p

\* Screws and CoScrews at the origin built from the input multivectors
ProbeScrews ==
  {ScrewBase_init("Screw", O, d, m).val : d \in DirectionInputs, m \in MomentInputs}

ProbeCoScrews ==
  {ScrewBase_init("CoScrew", O, d, m).val : d \in DirectionInputs, m \in MomentInputs}

\* C1: adding two CoScrews anchored at different reference points fails
\* with TypeMismatch and returns no CoScrew.
C1_CoScrewAddMismatchedPointsFails ==
  (op = "CoScrew_add" /\ y.kind = "CoScrew" /\ x.ref_point # y.ref_point)
    => (err = "TypeMismatch" /\ res = NoVal)

\* C2: change_point never alters the direction, lands on the requested
\* point, is the identity at the (co)screw's own point, and transporting
\* the result back to the original point gives the original (co)screw.
C2_ChangePointIdentityRoundTrip ==
  (op = "change_point" /\ err = "none")
    => /\ res.kind = x.kind
       /\ res.ref_point = arg
       /\ res.direction = x.direction
       /\ (arg = x.ref_point => res = x)
       /\ change_point(res, x.ref_point) = Ok(x)

C2_Witness ==
  /\ op = "change_point"
  /\ err = "none"
  /\ x.ref_point # O
  /\ arg # x.ref_point
  /\ res.moment # x.moment

C2_WitnessIdentity ==
  /\ op = "change_point"
  /\ err = "none"
  /\ arg = x.ref_point
  /\ Wedge(arg, x.direction) # Zero

\* C3: the sum of two Screws is a Screw at the left operand's point whose
\* direction is the sum of the directions and whose moment is the left
\* moment plus the right moment transported to the left point; at a common
\* point the sum is the same in both orders.
C3_ScrewAddLeftPointWins ==
  (op = "Screw_add" /\ y.kind = "Screw")
    => /\ err = "none"
       /\ res = [kind |-> "Screw",
                 ref_point |-> x.ref_point,
                 direction |-> MVAdd(x.direction, y.direction),
                 moment |-> MVAdd(x.moment,
                                  MVSub(y.moment,
                                        Wedge(MVSub(x.ref_point, y.ref_point),
                                              y.direction)))]
       /\ (x.ref_point = y.ref_point => Screw_add(y, x) = Ok(res))

C3_Witness ==
  /\ op = "Screw_add"
  /\ y.kind = "Screw"
  /\ err = "none"
  /\ x.ref_point # y.ref_point
  /\ res.moment # MVAdd(x.moment, y.moment)

\* C4: the wedge of two Screws equals the wedge with the right operand
\* transported to the left operand's point first, and is the Screw at the
\* left point with direction (d1 ^ m2) + (grade_involution(m1) ^ d2) and
\* moment m1 ^ m2, m2 being the transported right moment.
C4_ScrewWedgeTransportCorrect ==
  (op = "Screw_xor" /\ y.kind = "Screw")
    => LET m2 == MVSub(y.moment,
                       Wedge(MVSub(x.ref_point, y.ref_point), y.direction))
       IN /\ err = "none"
          /\ res = [kind |-> "Screw",
                    ref_point |-> x.ref_point,
                    direction |-> MVAdd(Wedge(x.direction, m2),
                                        Wedge(grade_involution(x.moment), y.direction)),
                    moment |-> Wedge(x.moment, m2)]
          /\ change_point(y, x.ref_point).err = "none"
          /\ Screw_xor(x, change_point(y, x.ref_point).val) = Ok(res)

C4_Witness ==
  /\ op = "Screw_xor"
  /\ y.kind = "Screw"
  /\ err = "none"
  /\ x.ref_point # y.ref_point
  /\ Wedge(grade_involution(x.moment), y.direction) # Wedge(x.moment, y.direction)
  /\ res.moment # Wedge(x.moment, y.moment)

\* C5: a constructor or change_point call whose reference point is not
\* its own grade-1 projection fails with InvalidReferencePoint and yields
\* no value, so every (co)screw held by the program has a grade-1
\* reference point.
C5_ReferencePointsAreGrade1 ==
  /\ \A v \in {x, y, res} : IsScrewBase(v) => IsPoint(v.ref_point)
  /\ (op \in {"construct", "change_point"} /\ ~IsPoint(arg))
       => (err = "InvalidReferencePoint" /\ res = NoVal)
  /\ (op \in {"construct", "change_point"} /\ IsPoint(arg)) => err = "none"

C5_Witness ==
  /\ op = "change_point"
  /\ err = "InvalidReferencePoint"
  /\ steps > 0
  /\ IsScrewBase(x)
  /\ IsScrewBase(y)

\* C6: Screw + non-Screw, Screw ^ non-Screw, CoScrew + non-CoScrew and
\* non-number * CoScrew fail with TypeMismatch, return nothing and leave
\* both operands as they were.
C6_TypeMismatchNoSideEffect ==
  [][ /\ (op' \in {"Screw_add", "Screw_xor"} /\ y'.kind # "Screw")
         => (err' = "TypeMismatch" /\ res' = NoVal)
      /\ (op' = "CoScrew_add" /\ y'.kind # "CoScrew")
         => (err' = "TypeMismatch" /\ res' = NoVal)
      /\ (op' = "CoScrew_rmul" /\ y'.kind # "scalar")
         => (err' = "TypeMismatch" /\ res' = NoVal)
      /\ err' = "TypeMismatch" => (x' = x /\ y' = y) ]_vars

C6_Witness ==
  /\ op = "Screw_add"
  /\ y.kind = "CoScrew"
  /\ err = "TypeMismatch"

C6_WitnessRmul ==
  /\ op = "CoScrew_rmul"
  /\ y.kind = "Screw"
  /\ err = "TypeMismatch"

\* C7: comoment is the grade-0 part of
\* -grade_involution(cs.direction) * grade_involution(s.moment) + s.direction * cs.moment,
\* is additive and homogeneous in the CoScrew, and additive in the Screw,
\* for operands sharing a reference point.
C7_ComomentBilinear ==
  /\ (op = "CoScrew_add" /\ err = "none" /\ x.ref_point = y.ref_point)
       => \A s \in ProbeScrews :
            comoment(res, s) = MVAdd(comoment(x, s), comoment(y, s))
  /\ (op = "CoScrew_rmul" /\ err = "none")
       => \A s \in ProbeScrews :
            comoment(res, s) = Scale(y.num, comoment(x, s))
  /\ (op = "Screw_add" /\ err = "none" /\ x.ref_point = y.ref_point)
       => \A cs \in ProbeCoScrews :
            comoment(cs, res) = MVAdd(comoment(cs, x), comoment(cs, y))
  /\ (op = "comoment")
       => res = MVVal(Grade(MVAdd(GeoProduct(MVNeg(grade_involution(x.direction)),
                                             grade_involution(y.moment)),
                                  GeoProduct(y.direction, x.moment)),
                            0))

C7_Witness ==
  /\ op = "CoScrew_rmul"
  /\ err = "none"
  /\ y.num > 1
  /\ \E s \in ProbeScrews : comoment(res, s) # Zero

C7_WitnessAdd ==
  /\ op = "CoScrew_add"
  /\ err = "none"
  /\ x.ref_point = y.ref_point
  /\ \E s \in ProbeScrews : comoment(res, s) # Zero /\ comoment(x, s) # comoment(res, s)

\* C8: when the fold loop has ended, the total comotor is made of joint 5
\* first and then joints 4, 3, 2, 1 and 0 in that order, each once.
C8_FoldCoversAllJoints ==
  pc \in {"transport", "translation", "final", "done"}
    => folded = [i \in 1..nb_joints |-> nb_joints - i]

\* C9: after the change_point(O) step, total_translation is the moment of
\* the total comotor transported to O.
C9_TranslationIsMomentAtO ==
  pc \in {"final", "done"}
    => total_translation =
         MVSub(total_comotor.moment,
               Wedge(MVSub(O, total_comotor.ref_point), total_comotor.direction))

\* C10: the point-free wedge has direction (d1 ^ m2) + (grade_involution(m1) ^ d2)
\* and moment m1 ^ m2, like the point-aware wedge of the same directions and
\* moments anchored at a common point.
C10_PointFreeWedgeParenthesized ==
  (op = "PF_Screw_xor" /\ err = "none")
    => /\ res.direction = MVAdd(Wedge(x.direction, y.moment),
                                Wedge(grade_involution(x.moment), y.direction))
       /\ res.moment = Wedge(x.moment, y.moment)
       /\ \A p \in ValidPoints :
            LET r == Screw_xor(ScrewBase_init("Screw", p, x.direction, x.moment).val,
                               ScrewBase_init("Screw", p, y.direction, y.moment).val)
            IN r.err = "none" /\ r.val.direction = res.direction
                              /\ r.val.moment = res.moment

====
